---- MODULE Spec2Model ----
(***************************************************************************)
(* Model of the false-positive suppression pipeline of SAFECode-Web:       *)
(* backend/app/suppression.py (rules, SuppressionEngine), the gate          *)
(* configuration of backend/app/config.py and the AI step of                *)
(* backend/app/ai.py that runs before the engine in scan_code.              *)
(*                                                                         *)
(* Numbers: confidences are hundredths (0.95 is 95).                        *)
(* Source text: a sequence of lines (code.split('\n')); a line is the set   *)
(* of the rules' regular expressions that re.search finds in it, one tag    *)
(* per pattern of suppression.py.                                           *)
(***************************************************************************)
EXTENDS Integers, Sequences, FiniteSets, TLC

VARIABLES findings, code, pc, idx, suppressed_count, calls, raisedBy,
          history, entry,
          engine,         \* suppression_engine, the one shared instance:
                          \* its rule list and its configuration
          reqs,           \* the requests served concurrently, each with
                          \* its own findings list, text and loop position
          ex,             \* a call of one of the context helpers: its
                          \* arguments and what it returned
          rl              \* the rate limiter: the clock, its recorded
                          \* timestamps and the calls in progress

vars == <<findings, code, pc, idx, suppressed_count, calls, raisedBy,
          history, entry, engine, reqs, ex, rl>>

\* the state of one pipeline run (one request served alone)
pipelineVars == <<findings, code, pc, idx, suppressed_count, calls,
                  raisedBy, history, entry>>

-----------------------------------------------------------------------------
(* Bounds of the model                                                     *)

MaxFindings == 2
MaxCalls == 2
MaxRecs == 1

-----------------------------------------------------------------------------
(* Values of a finding's fields                                            *)

ACTIVE == "ACTIVE"
SUPPRESSED == "SUPPRESSED"

\* Python None for suppression_reason
NoReason == "None"

\* the key suppression_confidence is absent from the dict
NoConfidence == -1

\* finding["confidence"]: a float (hundredths) or a categorical string
Float(v) == [kind |-> "float", v |-> v]
Categorical(s) == [kind |-> "str", v |-> CASE s = "low" -> 1
                                           [] s = "medium" -> 2
                                           [] OTHER -> 3]

\* a string as the sequence of its characters (snippets are searched for
\* substrings by the AI step)
Chars_gets == <<"g", "e", "t", "s">>
Chars_fgets == <<"f", "g", "e", "t", "s">>
Chars_free == <<"f", "r", "e", "e">>
Chars_rand == <<"r", "a", "n", "d">>
Chars_execl == <<"e", "x", "e", "c", "l">>
Chars_strcpy == <<"s", "t", "r", "c", "p", "y">>
Chars_strcat == <<"s", "t", "r", "c", "a", "t">>
Chars_sprintf == <<"s", "p", "r", "i", "n", "t", "f">>
Chars_vsprintf == <<"v", "s", "p", "r", "i", "n", "t", "f">>
Chars_system == <<"s", "y", "s", "t", "e", "m">>
Chars_popen == <<"p", "o", "p", "e", "n">>
Chars_open == <<"o", "p", "e", "n">>
Chars_printf == <<"p", "r", "i", "n", "t", "f">>

-----------------------------------------------------------------------------
(* Configuration: Config.__post_init__                                      *)

\* a list from which gets was left out
never_suppress_funcs_without_gets ==
    {"strcpy", "strcat", "sprintf", "vsprintf", "system", "popen"}

never_suppress_funcs ==
    {"strcpy", "strcat", "gets", "sprintf", "vsprintf", "system", "popen"}

safe_strict_min_thresholds ==
    [c \in {"CWE-120", "CWE-121", "CWE-122", "CWE-415", "CWE-416", "CWE-78",
            "CWE-134", "CWE-22", "CWE-367", "CWE-330", "CWE-190", "CWE-191",
            "CWE-787", "CWE-467"} |->
        IF c = "CWE-78" THEN 99 ELSE 95]

DefaultMinThreshold == 90

\* config.safe_strict_min_thresholds.get(cwe_id, 0.90)
MinThreshold(cwe_id) ==
    IF cwe_id \in DOMAIN safe_strict_min_thresholds
    THEN safe_strict_min_thresholds[cwe_id]
    ELSE DefaultMinThreshold

-----------------------------------------------------------------------------
(* Context extractor: SuppressionEngine._get_line/_get_prev_lines/          *)
(* _get_next_lines.  lines = code.split('\n') is the sequence `c`.          *)

Max(a, b) == IF a >= b THEN a ELSE b
Min(a, b) == IF a <= b THEN a ELSE b

\* the empty string: no pattern is found in it
EmptyLine == {}

\* Python's lines[start:end] with its treatment of negative and
\* out-of-range indices (0-based, end exclusive)
PySlice(c, start, end) ==
    LET n == Len(c)
        s == IF start < 0 THEN Max(0, start + n) ELSE Min(start, n)
        e == IF end < 0 THEN Max(0, end + n) ELSE Min(end, n)
    IN  IF s >= e THEN << >> ELSE [k \in 1..(e - s) |-> c[s + k]]

\* the range test without its lower bound: lines[line_num - 1] with a
\* negative index counts from the end of the list
get_line_unguarded(c, line_num) ==
    IF line_num - 1 >= Len(c) THEN EmptyLine
    ELSE IF line_num - 1 >= 0 THEN c[line_num]
    ELSE IF line_num - 1 + Len(c) >= 0 THEN c[line_num + Len(c)]
    ELSE EmptyLine

get_line(c, line_num) ==
    IF 0 <= line_num - 1 /\ line_num - 1 < Len(c) THEN c[line_num]
    ELSE EmptyLine

get_prev_lines(c, line_num, count) ==
    PySlice(c, Max(0, line_num - count - 1), line_num - 1)

get_next_lines(c, line_num, count) ==
    PySlice(c, line_num, Min(Len(c), line_num + count))

\* any(re.search(pattern, line) for line in lines), for a list of patterns
AnyLineHas(lines, tags) ==
    \E k \in 1..Len(lines) : lines[k] \cap tags # {}

-----------------------------------------------------------------------------
(* Reading a finding.  A finding is a dict; `missing` is the set of keys    *)
(* it lacks, and every read goes through .get with the default of the       *)
(* call site.                                                               *)

\* finding.get("confidence", 0.80)
DefaultConfidence == 80

\* finding.get("cwe_id") in the rules, finding.get("cwe_id", "") in the engine
cwe_id_of(f) == IF "cwe_id" \in f.missing THEN "" ELSE f.cwe_id

\* finding.get("context", {}).get("function", "")
function_of(f) ==
    IF "context" \in f.missing \/ "function" \in f.missing THEN ""
    ELSE f.function

\* finding.get("line", 0)
line_of(f) == IF "line" \in f.missing THEN 0 ELSE f.line

confidence_of(f) ==
    IF "confidence" \in f.missing THEN Float(DefaultConfidence)
    ELSE f.confidence

\* finding.get('snippet', '')
snippet_of(f) == IF "snippet" \in f.missing THEN << >> ELSE f.snippet

-----------------------------------------------------------------------------
(* Suppression rules.  A rule's matches(finding, code) yields               *)
(* (matches, reason, confidence_boost) or raises.  `self` is the set of     *)
(* attribute names that resolve on the rule instance: a call self.x(...)    *)
(* with x outside it raises AttributeError.                                 *)

\* class SuppressionRule(ABC) defines matches only; the rule classes add
\* nothing else
RuleClassAttrs == {"matches"}

\* the context extractor methods are defined on SuppressionEngine
EngineClassAttrs ==
    {"apply_suppression", "_get_line", "_get_prev_lines", "_get_next_lines"}

NoMatch == [matches |-> FALSE, reason |-> "", boost |-> 0, raised |-> FALSE]
Match(reason, boost) ==
    [matches |-> TRUE, reason |-> reason, boost |-> boost, raised |-> FALSE]
AttributeError ==
    [matches |-> FALSE, reason |-> "", boost |-> 0, raised |-> TRUE]

\* function.startswith("exec"), over the exec family of libc
StartsWithExec(function) ==
    function \in {"exec", "execl", "execle", "execlp", "execv", "execve",
                  "execvp"}

PrintfLiteralFormatRule(self, f, c) ==
    IF cwe_id_of(f) # "CWE-134" THEN NoMatch
    ELSE IF function_of(f) \notin {"printf", "fprintf", "dprintf", "snprintf",
                               "vsnprintf", "vfprintf", "vprintf"}
    THEN NoMatch
    ELSE IF "_get_line" \notin self THEN AttributeError
    ELSE IF "_has_literal_format" \notin self THEN AttributeError
    ELSE LET line_content == get_line(c, line_of(f))
         IN  IF "literal_format" \in line_content
                /\ "pct_n" \notin line_content
             THEN Match("printf_literal_format", 95)
             ELSE NoMatch

SnprintfLiteralFormatRule(self, f, c) ==
    IF cwe_id_of(f) # "CWE-134" THEN NoMatch
    ELSE IF function_of(f) # "snprintf" THEN NoMatch
    ELSE IF "_get_line" \notin self THEN AttributeError
    ELSE IF "_has_literal_format" \notin self THEN AttributeError
    ELSE LET line_content == get_line(c, line_of(f))
         IN  IF "literal_format" \notin line_content THEN NoMatch
             ELSE IF "_has_explicit_size" \notin self THEN AttributeError
             ELSE IF "explicit_size" \in line_content
             THEN Match("snprintf_literal_format", 95)
             ELSE NoMatch

FormatStringSafeForwardRule(self, f, c) ==
    IF cwe_id_of(f) # "CWE-134" THEN NoMatch
    ELSE IF "_get_line" \notin self THEN AttributeError
    ELSE IF get_line(c, line_of(f)) \cap {"fprintf_pct_s", "printf_pct_star_s"}
            # {}
    THEN Match("format_string_safe_forward", 90)
    ELSE NoMatch

ExeclNoShellRule(self, f, c) ==
    IF cwe_id_of(f) # "CWE-78" THEN NoMatch
    ELSE IF ~StartsWithExec(function_of(f)) THEN NoMatch
    ELSE IF "_get_line" \notin self THEN AttributeError
    ELSE IF "_has_constant_path" \notin self THEN AttributeError
    ELSE LET line_content == get_line(c, line_of(f))
         IN  IF "constant_path" \in line_content
                /\ "dash_dash" \in line_content
             THEN Match("execl_no_shell", 95)
             ELSE NoMatch

ExecArgAllowlistRule(self, f, c) ==
    IF cwe_id_of(f) # "CWE-78" THEN NoMatch
    ELSE IF "_get_prev_lines" \notin self THEN AttributeError
    ELSE IF AnyLineHas(get_prev_lines(c, line_of(f), 5),
                       {"is_safe_token", "validate_arg", "allow_not_dotdot"})
    THEN Match("exec_arg_allowlist", 90)
    ELSE NoMatch

ExecConstArgvRule(self, f, c) ==
    IF cwe_id_of(f) # "CWE-78" THEN NoMatch
    ELSE IF "_get_line" \notin self THEN AttributeError
    ELSE IF "literal_array" \in get_line(c, line_of(f))
    THEN Match("exec_const_argv", 90)
    ELSE NoMatch

StrncpyBoundsPlusNulRule(self, f, c) ==
    IF cwe_id_of(f) \notin {"CWE-120", "CWE-121", "CWE-122"} THEN NoMatch
    ELSE IF function_of(f) # "strncpy" THEN NoMatch
    ELSE IF "_get_next_lines" \notin self THEN AttributeError
    ELSE IF "_get_line" \notin self THEN AttributeError
    ELSE IF "sizeof_minus_1" \in get_line(c, line_of(f))
            /\ AnyLineHas(get_next_lines(c, line_of(f), 3), {"nul_write"})
    THEN Match("strncpy_bounds_plus_nul", 95)
    ELSE NoMatch

StrncatSpaceGuardRule(self, f, c) ==
    IF cwe_id_of(f) \notin {"CWE-120", "CWE-121", "CWE-122"} THEN NoMatch
    ELSE IF function_of(f) # "strncat" THEN NoMatch
    ELSE IF "_get_prev_lines" \notin self THEN AttributeError
    ELSE IF AnyLineHas(get_prev_lines(c, line_of(f), 3),
                       {"room_cap_strlen", "sizeof_minus_strlen"})
    THEN Match("strncat_space_guard", 90)
    ELSE NoMatch

ScanfWidthSpecifierRule(self, f, c) ==
    IF cwe_id_of(f) # "CWE-120" THEN NoMatch
    ELSE IF function_of(f) \notin {"scanf", "fscanf", "sscanf"} THEN NoMatch
    ELSE IF "_get_line" \notin self THEN AttributeError
    ELSE IF "width_spec" \in get_line(c, line_of(f))
    THEN Match("scanf_width_guard", 90)
    ELSE NoMatch

BoundsCheckedIndexRule(self, f, c) ==
    IF cwe_id_of(f) \notin {"CWE-120", "CWE-787"} THEN NoMatch
    ELSE IF "_get_prev_lines" \notin self THEN AttributeError
    ELSE IF AnyLineHas(get_prev_lines(c, line_of(f), 5),
                       {"for_i_lt_sizeof", "if_i_lt_const"})
    THEN Match("index_bounds_guard", 90)
    ELSE NoMatch

AllocAddOverflowGuardRule(self, f, c) ==
    IF cwe_id_of(f) \notin {"CWE-190", "CWE-191"} THEN NoMatch
    ELSE IF "_get_prev_lines" \notin self THEN AttributeError
    ELSE IF AnyLineHas(get_prev_lines(c, line_of(f), 5),
                       {"if_gt_size_max_minus", "if_a_gt_size_max_minus_b"})
    THEN Match("overflow_guard", 95)
    ELSE NoMatch

MulOverflowGuardRule(self, f, c) ==
    IF cwe_id_of(f) \notin {"CWE-190", "CWE-191"} THEN NoMatch
    ELSE IF "_get_prev_lines" \notin self THEN AttributeError
    ELSE IF AnyLineHas(get_prev_lines(c, line_of(f), 5),
                       {"if_gt_size_max_div"})
    THEN Match("overflow_guard_mul", 95)
    ELSE NoMatch

SignedUnderflowGuardRule(self, f, c) ==
    IF cwe_id_of(f) \notin {"CWE-190", "CWE-191"} THEN NoMatch
    ELSE IF "_get_prev_lines" \notin self THEN AttributeError
    ELSE IF AnyLineHas(get_prev_lines(c, line_of(f), 5), {"if_lt_min_plus"})
    THEN Match("underflow_guard", 90)
    ELSE NoMatch

FreeThenNullRule(self, f, c) ==
    IF cwe_id_of(f) \notin {"CWE-401", "CWE-415", "CWE-416"} THEN NoMatch
    ELSE IF function_of(f) # "free" THEN NoMatch
    ELSE IF "_get_next_lines" \notin self THEN AttributeError
    ELSE IF AnyLineHas(get_next_lines(c, line_of(f), 3), {"assign_null"})
    THEN Match("free_then_null", 90)
    ELSE NoMatch

NullGuardedUseRule(self, f, c) ==
    IF cwe_id_of(f) \notin {"CWE-476", "CWE-415", "CWE-416"} THEN NoMatch
    ELSE IF "_get_prev_lines" \notin self THEN AttributeError
    ELSE IF AnyLineHas(get_prev_lines(c, line_of(f), 3),
                       {"if_not", "if_block_deref"})
    THEN Match("null_guarded_use", 90)
    ELSE NoMatch

\* the pointer captured from free(<pointer>) is the one the tags
\* "deref_freed" (*pointer) and "index_freed" (pointer[) speak of
NoPostFreeUseRule(self, f, c) ==
    IF cwe_id_of(f) \notin {"CWE-415", "CWE-416"} THEN NoMatch
    ELSE IF "_get_next_lines" \notin self THEN AttributeError
    ELSE IF "_get_line" \notin self THEN AttributeError
    ELSE IF "free_call" \notin get_line(c, line_of(f)) THEN NoMatch
    ELSE IF AnyLineHas(get_next_lines(c, line_of(f), 10),
                       {"deref_freed", "index_freed"})
    THEN NoMatch
    ELSE Match("no_post_free_use", 85)

LeakHandledOnErrorRule(self, f, c) ==
    IF cwe_id_of(f) # "CWE-401" THEN NoMatch
    ELSE IF "_get_next_lines" \notin self THEN AttributeError
    ELSE IF AnyLineHas(get_next_lines(c, line_of(f), 10),
                       {"if_error_free", "if_null_free"})
    THEN Match("leak_guard", 90)
    ELSE NoMatch

\* the rule without its CWE filter
RelpathAllowlistRule_any_cwe(self, f, c) ==
    IF "_get_prev_lines" \notin self THEN AttributeError
    ELSE IF AnyLineHas(get_prev_lines(c, line_of(f), 5),
                       {"is_safe_relpath", "validate_path", "not_dotdot"})
    THEN Match("relpath_allowlist", 90)
    ELSE NoMatch

RelpathAllowlistRule(self, f, c) ==
    IF cwe_id_of(f) # "CWE-22" THEN NoMatch
    ELSE IF "_get_prev_lines" \notin self THEN AttributeError
    ELSE IF AnyLineHas(get_prev_lines(c, line_of(f), 5),
                       {"is_safe_relpath", "validate_path", "not_dotdot"})
    THEN Match("relpath_allowlist", 90)
    ELSE NoMatch

OpenExclusiveRule(self, f, c) ==
    IF cwe_id_of(f) \notin {"CWE-22", "CWE-367"} THEN NoMatch
    ELSE IF function_of(f) # "open" THEN NoMatch
    ELSE IF "_get_line" \notin self THEN AttributeError
    ELSE IF "o_creat_o_excl" \in get_line(c, line_of(f))
    THEN Match("toctou_o_excl", 95)
    ELSE NoMatch

MkstempOkRule(self, f, c) ==
    IF cwe_id_of(f) # "CWE-377" THEN NoMatch
    ELSE IF function_of(f) # "mkstemp" THEN NoMatch
    ELSE IF "_get_next_lines" \notin self THEN AttributeError
    ELSE IF AnyLineHas(get_next_lines(c, line_of(f), 10), {"close"})
    THEN Match("mkstemp_safe", 95)
    ELSE NoMatch

SizeofFixedBufferRule(self, f, c) ==
    IF cwe_id_of(f) # "CWE-467" THEN NoMatch
    ELSE IF "_get_line" \notin self THEN AttributeError
    ELSE IF "sizeof_ident" \in get_line(c, line_of(f))
    THEN Match("sizeof_fixed_buffer", 90)
    ELSE NoMatch

SizeofDerefPointerRule(self, f, c) ==
    IF cwe_id_of(f) # "CWE-467" THEN NoMatch
    ELSE IF "_get_line" \notin self THEN AttributeError
    ELSE IF "sizeof_deref" \in get_line(c, line_of(f))
    THEN Match("sizeof_deref_pointer", 90)
    ELSE NoMatch

\* re.search(pattern, code) over the whole text; calls no method of self
CryptographicSourceUsedRule(self, f, c) ==
    IF cwe_id_of(f) # "CWE-330" THEN NoMatch
    ELSE IF AnyLineHas(c, {"getrandom", "arc4random", "dev_urandom",
                           "RAND_bytes"})
    THEN Match("crypto_rng_present", 85)
    ELSE NoMatch

ContextSafeRule(self, f, c) ==
    IF "_get_prev_lines" \notin self THEN AttributeError
    ELSE IF AnyLineHas(get_prev_lines(c, line_of(f), 3),
                       {"block_safe", "line_safe", "block_test", "line_test"})
    THEN Match("context_safe", 80)
    ELSE NoMatch

\* SuppressionEngine.__init__: self.rules, in list order
rules ==
    << "PrintfLiteralFormatRule", "SnprintfLiteralFormatRule",
       "FormatStringSafeForwardRule", "ExeclNoShellRule",
       "ExecArgAllowlistRule", "ExecConstArgvRule",
       "StrncpyBoundsPlusNulRule", "StrncatSpaceGuardRule",
       "ScanfWidthSpecifierRule", "BoundsCheckedIndexRule",
       "AllocAddOverflowGuardRule", "MulOverflowGuardRule",
       "SignedUnderflowGuardRule", "FreeThenNullRule",
       "NullGuardedUseRule", "NoPostFreeUseRule", "LeakHandledOnErrorRule",
       "RelpathAllowlistRule", "OpenExclusiveRule", "MkstempOkRule",
       "SizeofFixedBufferRule", "SizeofDerefPointerRule",
       "CryptographicSourceUsedRule", "ContextSafeRule" >>

\* rule.matches(finding, code): dispatch on the rule's class
matches(rule, self, f, c) ==
    CASE rule = "PrintfLiteralFormatRule" -> PrintfLiteralFormatRule(self, f, c)
      [] rule = "SnprintfLiteralFormatRule" -> SnprintfLiteralFormatRule(self, f, c)
      [] rule = "FormatStringSafeForwardRule" -> FormatStringSafeForwardRule(self, f, c)
      [] rule = "ExeclNoShellRule" -> ExeclNoShellRule(self, f, c)
      [] rule = "ExecArgAllowlistRule" -> ExecArgAllowlistRule(self, f, c)
      [] rule = "ExecConstArgvRule" -> ExecConstArgvRule(self, f, c)
      [] rule = "StrncpyBoundsPlusNulRule" -> StrncpyBoundsPlusNulRule(self, f, c)
      [] rule = "StrncatSpaceGuardRule" -> StrncatSpaceGuardRule(self, f, c)
      [] rule = "ScanfWidthSpecifierRule" -> ScanfWidthSpecifierRule(self, f, c)
      [] rule = "BoundsCheckedIndexRule" -> BoundsCheckedIndexRule(self, f, c)
      [] rule = "AllocAddOverflowGuardRule" -> AllocAddOverflowGuardRule(self, f, c)
      [] rule = "MulOverflowGuardRule" -> MulOverflowGuardRule(self, f, c)
      [] rule = "SignedUnderflowGuardRule" -> SignedUnderflowGuardRule(self, f, c)
      [] rule = "FreeThenNullRule" -> FreeThenNullRule(self, f, c)
      [] rule = "NullGuardedUseRule" -> NullGuardedUseRule(self, f, c)
      [] rule = "NoPostFreeUseRule" -> NoPostFreeUseRule(self, f, c)
      [] rule = "LeakHandledOnErrorRule" -> LeakHandledOnErrorRule(self, f, c)
      [] rule = "RelpathAllowlistRule" -> RelpathAllowlistRule(self, f, c)
      [] rule = "OpenExclusiveRule" -> OpenExclusiveRule(self, f, c)
      [] rule = "MkstempOkRule" -> MkstempOkRule(self, f, c)
      [] rule = "SizeofFixedBufferRule" -> SizeofFixedBufferRule(self, f, c)
      [] rule = "SizeofDerefPointerRule" -> SizeofDerefPointerRule(self, f, c)
      [] rule = "CryptographicSourceUsedRule" -> CryptographicSourceUsedRule(self, f, c)
      [] OTHER -> ContextSafeRule(self, f, c)

-----------------------------------------------------------------------------
(* SuppressionEngine.apply_suppression: the body of `for finding in        *)
(* findings`, applied to one finding.                                       *)

\* the rule's confidence_boost added to the stored value instead of
\* replacing it
Suppress_accumulating(f, out) ==
    [f EXCEPT !.status = SUPPRESSED,
              !.suppression_reason = out.reason,
              !.suppression_confidence =
                  (IF @ = NoConfidence THEN 0 ELSE @) + out.boost]

\* the rule's confidence written over the finding's own confidence too
Suppress_overwriting_confidence(f, out) ==
    [f EXCEPT !.status = SUPPRESSED,
              !.suppression_reason = out.reason,
              !.suppression_confidence = out.boost,
              !.confidence = Float(out.boost)]

\* the three assignments made when a rule matches
Suppress(f, out) ==
    [f EXCEPT !.status = SUPPRESSED,
              !.suppression_reason = out.reason,
              !.suppression_confidence = out.boost]

\* the rule loop with the reason and the confidence written from every
\* rule's answer, before `if matches` is looked at
RECURSIVE ApplyRulesOf_eager(_, _, _, _)
ApplyRulesOf_eager(rs, k, f, c) ==
    IF k > Len(rs)
    THEN [finding |-> f, outcome |-> "no_match", rule |-> "None"]
    ELSE LET out == matches(rs[k], RuleClassAttrs, f, c)
             g == [f EXCEPT !.suppression_reason = out.reason,
                            !.suppression_confidence = out.boost]
         IN  IF out.raised
             THEN [finding |-> f, outcome |-> "raise_rule", rule |-> rs[k]]
             ELSE IF out.matches
             THEN [finding |-> [g EXCEPT !.status = SUPPRESSED],
                   outcome |-> "suppressed", rule |-> rs[k]]
             ELSE ApplyRulesOf_eager(rs, k + 1, g, c)

\* `for rule in self.rules`, from the k-th rule on.  No try/except encloses
\* rule.matches: an exception raised by a rule leaves apply_suppression.
RECURSIVE ApplyRulesOf(_, _, _, _)
ApplyRulesOf(rs, k, f, c) ==
    IF k > Len(rs)
    THEN [finding |-> f, outcome |-> "no_match", rule |-> "None"]
    ELSE LET out == matches(rs[k], RuleClassAttrs, f, c)
         IN  IF out.raised
             THEN [finding |-> f, outcome |-> "raise_rule", rule |-> rs[k]]
             ELSE IF out.matches
             THEN [finding |-> Suppress(f, out), outcome |-> "suppressed",
                   rule |-> rs[k]]
             ELSE ApplyRulesOf(rs, k + 1, f, c)

\* the scan over the list that SuppressionEngine.__init__ builds
ApplyRules(k, f, c) == ApplyRulesOf(rules, k, f, c)

\* a gate that marks the finding ACTIVE when its confidence is below the
\* threshold, instead of leaving it alone
ApplyOne_resetting(f, c) ==
    IF function_of(f) \in never_suppress_funcs
    THEN [finding |-> f, outcome |-> "denylisted", rule |-> "None"]
    ELSE IF confidence_of(f).kind = "str"
    THEN [finding |-> f, outcome |-> "raise_gate", rule |-> "None"]
    ELSE IF confidence_of(f).v < MinThreshold(cwe_id_of(f))
    THEN [finding |-> [f EXCEPT !.status = ACTIVE],
          outcome |-> "below_threshold", rule |-> "None"]
    ELSE ApplyRules(1, f, c)

\* one iteration of the loop over findings.  `confidence < min_threshold`
\* raises TypeError when the confidence is a string.
ApplyOne(f, c) ==
    IF function_of(f) \in never_suppress_funcs
    THEN [finding |-> f, outcome |-> "denylisted", rule |-> "None"]
    ELSE IF confidence_of(f).kind = "str"
    THEN [finding |-> f, outcome |-> "raise_gate", rule |-> "None"]
    ELSE IF confidence_of(f).v < MinThreshold(cwe_id_of(f))
    THEN [finding |-> f, outcome |-> "below_threshold", rule |-> "None"]
    ELSE ApplyRules(1, f, c)

\* the same iteration, reading the rule list held by the engine object
\* (self.rules) at the time of the call
ApplyOneOf(rs, f, c) ==
    IF function_of(f) \in never_suppress_funcs
    THEN [finding |-> f, outcome |-> "denylisted", rule |-> "None"]
    ELSE IF confidence_of(f).kind = "str"
    THEN [finding |-> f, outcome |-> "raise_gate", rule |-> "None"]
    ELSE IF confidence_of(f).v < MinThreshold(cwe_id_of(f))
    THEN [finding |-> f, outcome |-> "below_threshold", rule |-> "None"]
    ELSE ApplyRulesOf(rs, 1, f, c)

-----------------------------------------------------------------------------
(* AISuppressionEngine._process_ai_response and _should_never_suppress      *)

\* `func in snippet` on Python strings: substring search
Contains(s, sub) ==
    \E k \in 0..(Len(s) - Len(sub)) :
        \A m \in 1..Len(sub) : s[k + m] = sub[m]

ai_never_suppress_funcs ==
    {Chars_strcpy, Chars_strcat, Chars_gets, Chars_sprintf, Chars_vsprintf,
     Chars_system, Chars_popen}

should_never_suppress(f) ==
    \E func \in ai_never_suppress_funcs : Contains(snippet_of(f), func)

\* the effect of one entry of ai_data['findings'] on the list
ApplyRecommendation(fs, rec) ==
    IF rec.finding_id # 0 /\ 1 <= rec.finding_id /\ rec.finding_id <= Len(fs)
    THEN LET f == fs[rec.finding_id]
         IN  IF should_never_suppress(f) THEN fs
             ELSE IF rec.action = "suppress"
             THEN [fs EXCEPT ![rec.finding_id] =
                      [f EXCEPT !.status = SUPPRESSED,
                                !.suppression_reason = "ai_suppression: r"]]
             ELSE IF rec.action = "adjust_confidence"
                     /\ rec.new_confidence # "None"
             THEN [fs EXCEPT ![rec.finding_id] =
                      [f EXCEPT !.confidence = Categorical(rec.new_confidence),
                                !.suppression_reason = "ai_adjustment: r"]]
             ELSE fs
    ELSE fs

\* `for ai_finding in ai_data.get('findings', [])`
RECURSIVE process_ai_response(_, _)
process_ai_response(fs, response) ==
    IF response = << >> THEN fs
    ELSE process_ai_response(ApplyRecommendation(fs, Head(response)),
                             Tail(response))

-----------------------------------------------------------------------------
(* Inputs                                                                   *)

\* findings as the analyzer adapters hand them over
FindingPool ==
    { [cwe_id |-> "CWE-330", function |-> "rand", snippet |-> Chars_rand,
       line |-> 2, confidence |-> Float(95),
       missing |-> {}],
      [cwe_id |-> "CWE-330", function |-> "rand", snippet |-> Chars_rand,
       line |-> 2, confidence |-> Float(80),
       missing |-> {}],
      [cwe_id |-> "CWE-330", function |-> "rand", snippet |-> Chars_rand,
       line |-> 2, confidence |-> Categorical("high"),
       missing |-> {}],
      [cwe_id |-> "CWE-330", function |-> "gets", snippet |-> Chars_gets,
       line |-> 2, confidence |-> Float(95),
       missing |-> {}],
      [cwe_id |-> "CWE-330", function |-> "fgets", snippet |-> Chars_fgets,
       line |-> 2, confidence |-> Float(95),
       missing |-> {}],
      [cwe_id |-> "CWE-120", function |-> "gets", snippet |-> << >>,
       line |-> 2, confidence |-> Float(95),
       missing |-> {}],
      [cwe_id |-> "CWE-415", function |-> "free", snippet |-> Chars_free,
       line |-> 2, confidence |-> Float(95),
       missing |-> {}],
      [cwe_id |-> "CWE-476", function |-> "free", snippet |-> Chars_free,
       line |-> 2, confidence |-> Float(90),
       missing |-> {}],
      [cwe_id |-> "CWE-78", function |-> "execl", snippet |-> Chars_execl,
       line |-> 2, confidence |-> Float(99),
       missing |-> {}] }

\* source texts, line by line
CodePool ==
    { << {"if_not"}, {"free_call"}, {"assign_null"} >>,
      << {"line_safe"}, {"getrandom"} >>,
      << {"is_safe_token", "if_not"}, {} >> }

MkFinding(j, p) ==
    [id |-> j, cwe_id |-> p.cwe_id, function |-> p.function,
     snippet |-> p.snippet, line |-> p.line, confidence |-> p.confidence,
     missing |-> p.missing,
     status |-> ACTIVE, suppression_reason |-> NoReason,
     suppression_confidence |-> NoConfidence]

\* entries of the AI's JSON answer
Recommendations(n) ==
    [finding_id : 0..n, action : {"suppress", "adjust_confidence", "keep"},
     new_confidence : {"high", "None"}]

Responses(n) ==
    UNION {[1..m -> Recommendations(n)] : m \in 0..MaxRecs}

\* suppression_engine = SuppressionEngine(): self.config, self.rules
EngineAtStartup ==
    [rules |-> rules,
     config |-> [never_suppress_funcs |-> never_suppress_funcs,
                 safe_strict_min_thresholds |-> safe_strict_min_thresholds]]

\* no context helper has been called
NoHelperCall ==
    [fn |-> "none", text |-> << >>, line_num |-> 0, count |-> 0,
     result |-> << >>]

\* _rate_limiter before the first get_rate_limiter(): not yet built
NoLimiter == [built |-> FALSE]

-----------------------------------------------------------------------------
(* The pipeline of scan_code: analyzer output, AI step, suppression engine  *)

Init ==
    /\ \E n \in 0..MaxFindings : \E p \in [1..n -> FindingPool] :
          findings = [j \in 1..n |-> MkFinding(j, p[j])]
    /\ code \in CodePool
    /\ pc = "scanned"
    /\ idx = 0
    /\ suppressed_count = 0
    /\ calls = 0
    /\ raisedBy = "none"
    /\ history = << >>
    /\ entry = << >>
    /\ engine = EngineAtStartup
    /\ reqs = << >>
    /\ ex = NoHelperCall
    /\ rl = NoLimiter

\* process_findings_with_ai, when is_ai_available()
ProcessFindingsWithAI ==
    /\ pc = "scanned"
    /\ \E response \in Responses(Len(findings)) :
          findings' = process_ai_response(findings, response)
    /\ pc' = "ai_done"
    /\ UNCHANGED <<code, idx, suppressed_count, calls, raisedBy, history,
                   entry, engine, reqs, ex, rl>>

\* is_ai_available() is false: the AI step is skipped
SkipAI ==
    /\ pc = "scanned"
    /\ pc' = "ai_done"
    /\ UNCHANGED <<findings, code, idx, suppressed_count, calls, raisedBy,
                   history, entry, engine, reqs, ex, rl>>

\* entry to apply_suppression: suppressed_count = 0, the loop starts
CallApplySuppression ==
    /\ pc \in {"ai_done", "returned", "raised"}
    /\ calls < MaxCalls
    /\ pc' = "loop"
    /\ idx' = 1
    /\ suppressed_count' = 0
    /\ raisedBy' = "none"
    /\ entry' = findings
    /\ UNCHANGED <<findings, code, calls, history, engine, reqs, ex, rl>>

\* the loop run on a copy of the list that is handed back only by
\* `return`: what was decided before an exception is lost with the copy
LoopStep_on_copy ==
    /\ pc = "loop"
    /\ idx <= Len(findings)
    /\ LET r == ApplyOne(findings[idx], code)
       IN  IF r.outcome \in {"raise_gate", "raise_rule"}
           THEN /\ pc' = "raised"
                /\ raisedBy' = r.outcome
                /\ calls' = calls + 1
                /\ findings' = entry
                /\ history' = Append(history,
                      [kind |-> "raised", findings |-> findings',
                       entry |-> entry])
                /\ UNCHANGED <<idx, suppressed_count>>
           ELSE /\ findings' = [findings EXCEPT ![idx] = r.finding]
                /\ suppressed_count' =
                      IF r.outcome = "suppressed" THEN suppressed_count + 1
                      ELSE suppressed_count
                /\ idx' = idx + 1
                /\ UNCHANGED <<pc, raisedBy, calls, history>>
    /\ UNCHANGED <<code, entry, engine, reqs, ex, rl>>

\* one iteration of `for finding in findings`.  The finding is a dict
\* changed in place: what was written to it before an exception stays.
LoopStep ==
    /\ pc = "loop"
    /\ idx <= Len(findings)
    /\ LET r == ApplyOne(findings[idx], code)
       IN  IF r.outcome \in {"raise_gate", "raise_rule"}
           THEN /\ pc' = "raised"
                /\ raisedBy' = r.outcome
                /\ calls' = calls + 1
                /\ findings' = [findings EXCEPT ![idx] = r.finding]
                /\ history' = Append(history,
                      [kind |-> "raised", findings |-> findings',
                       entry |-> entry])
                /\ UNCHANGED <<idx, suppressed_count>>
           ELSE /\ findings' = [findings EXCEPT ![idx] = r.finding]
                /\ suppressed_count' =
                      IF r.outcome = "suppressed" THEN suppressed_count + 1
                      ELSE suppressed_count
                /\ idx' = idx + 1
                /\ UNCHANGED <<pc, raisedBy, calls, history>>
    /\ UNCHANGED <<code, entry, engine, reqs, ex, rl>>

\* the loop is over: `return findings`
Return ==
    /\ pc = "loop"
    /\ idx > Len(findings)
    /\ pc' = "returned"
    /\ calls' = calls + 1
    /\ history' = Append(history,
          [kind |-> "returned", findings |-> findings, entry |-> entry])
    /\ UNCHANGED <<findings, code, idx, suppressed_count, raisedBy, entry,
                   engine, reqs, ex, rl>>

Next ==
    \/ ProcessFindingsWithAI
    \/ SkipAI
    \/ CallApplySuppression
    \/ LoopStep
    \/ Return

Spec == Init /\ [][Next]_vars

-----------------------------------------------------------------------------
(* The same pipeline on the inputs the specification's scenarios describe   *)
(* and on findings that lack a field                                        *)

\* a field a finding lacks; never read, .get yields the default instead
AbsentStr == "<absent>"
AbsentConfidence == [kind |-> "absent", v |-> 0]

ScenarioFindingPool ==
    { \* path traversal on the second line of the text
      [cwe_id |-> "CWE-22", function |-> "open", snippet |-> Chars_open,
       line |-> 2, confidence |-> Float(95), missing |-> {}],
      \* double free reported on line 10
      [cwe_id |-> "CWE-415", function |-> "free", snippet |-> Chars_free,
       line |-> 10, confidence |-> Float(95), missing |-> {}],
      \* format string reported on line 1
      [cwe_id |-> "CWE-134", function |-> "printf",
       snippet |-> Chars_printf, line |-> 1, confidence |-> Float(95),
       missing |-> {}],
      \* weak random source, suppressible by the text with getrandom
      [cwe_id |-> "CWE-330", function |-> "rand", snippet |-> Chars_rand,
       line |-> 2, confidence |-> Float(95), missing |-> {}],
      \* no line
      [cwe_id |-> "CWE-22", function |-> "open", snippet |-> Chars_open,
       line |-> 0, confidence |-> Float(95), missing |-> {"line"}],
      \* no confidence
      [cwe_id |-> "CWE-330", function |-> "rand", snippet |-> Chars_rand,
       line |-> 2, confidence |-> AbsentConfidence,
       missing |-> {"confidence"}],
      \* no context and no cwe_id
      [cwe_id |-> AbsentStr, function |-> AbsentStr,
       snippet |-> Chars_rand, line |-> 2, confidence |-> Float(95),
       missing |-> {"context", "cwe_id"}] }

ScenarioCodePool ==
    { \* free(p); on line 10, p = NULL; on line 11
      << {}, {}, {}, {}, {}, {}, {}, {}, {}, {"free_call"},
         {"assign_null"} >>,
      \* printf("%s", buf); then an open with no validation before it
      << {"literal_format"}, {"open_call"} >>,
      \* a text that reads its random bytes with getrandom
      << {"getrandom"}, {} >>,
      \* a path check, then open(path, O_CREAT | O_EXCL, ...)
      << {"validate_path"}, {"o_creat_o_excl"} >> }

ScenarioInit ==
    /\ \E n \in 0..MaxFindings : \E p \in [1..n -> ScenarioFindingPool] :
          findings = [j \in 1..n |-> MkFinding(j, p[j])]
    /\ code \in ScenarioCodePool
    /\ pc = "scanned"
    /\ idx = 0
    /\ suppressed_count = 0
    /\ calls = 0
    /\ raisedBy = "none"
    /\ history = << >>
    /\ entry = << >>
    /\ engine = EngineAtStartup
    /\ reqs = << >>
    /\ ex = NoHelperCall
    /\ rl = NoLimiter

ScenarioSpec == ScenarioInit /\ [][Next]_vars

-----------------------------------------------------------------------------
(* Several requests served at once by the one module-level engine.  Each    *)
(* call of apply_suppression has its own locals (config, suppressed_count,  *)
(* the loop position) and its caller's list and text; the calls share the   *)
(* engine object.  A step is one iteration of the loop over findings: an    *)
(* iteration reads the shared object and writes only the request's own      *)
(* finding, so a finer interleaving gives no further result.                *)

MaxRequests == 2

ConcFindingPool ==
    { [cwe_id |-> "CWE-330", function |-> "rand", snippet |-> Chars_rand,
       line |-> 2, confidence |-> Float(95), missing |-> {}],
      [cwe_id |-> "CWE-415", function |-> "free", snippet |-> Chars_free,
       line |-> 2, confidence |-> Float(95), missing |-> {}] }

\* the text each request submits: with it, the first finding above is
\* suppressed and the second makes the call raise
ConcCodePool ==
    { << {"line_safe"}, {"getrandom"} >> }

\* a request that has its findings and its text and has not called yet
NewRequest(fs, c) ==
    [findings |-> fs, entry |-> << >>, code |-> c, pc |-> "ready",
     idx |-> 0, suppressed_count |-> 0]

\* the requests: every list of MaxFindings findings, with the text
ConcRequests ==
    { NewRequest([j \in DOMAIN p |-> MkFinding(j, p[j])], c) :
        p \in [1..MaxFindings -> ConcFindingPool], c \in ConcCodePool }

ConcInit ==
    /\ \E n \in 1..MaxRequests : reqs \in [1..n -> ConcRequests]
    /\ engine = EngineAtStartup
    /\ findings = << >>
    /\ code = << >>
    /\ pc = "serving"
    /\ idx = 0
    /\ suppressed_count = 0
    /\ calls = 0
    /\ raisedBy = "none"
    /\ history = << >>
    /\ entry = << >>
    /\ ex = NoHelperCall
    /\ rl = NoLimiter

\* request r enters suppression_engine.apply_suppression
ConcCall(r) ==
    /\ reqs[r].pc = "ready"
    /\ reqs' = [reqs EXCEPT ![r].pc = "loop", ![r].idx = 1,
                            ![r].suppressed_count = 0,
                            ![r].entry = reqs[r].findings]
    /\ UNCHANGED <<pipelineVars, engine, ex, rl>>

\* the loop position kept on the engine object instead of in a local:
\* every call advances the one cursor and takes up the loop where the
\* cursor stands
ConcLoopStep_shared_cursor(r) ==
    /\ reqs[r].pc = "loop"
    /\ reqs[r].idx <= Len(reqs[r].findings)
    /\ idx' = idx + 1
    /\ IF idx' > Len(reqs[r].findings)
       THEN reqs' = [reqs EXCEPT ![r].idx = idx']
       ELSE LET q == ApplyOneOf(engine.rules, reqs[r].findings[idx'],
                                reqs[r].code)
            IN  reqs' = [reqs EXCEPT
                   ![r].findings[idx'] = q.finding,
                   ![r].pc = IF q.outcome \in {"raise_gate", "raise_rule"}
                             THEN "raised" ELSE "loop",
                   ![r].idx = IF q.outcome \in {"raise_gate", "raise_rule"}
                              THEN idx' ELSE idx' + 1,
                   ![r].suppressed_count =
                        IF q.outcome = "suppressed" THEN @ + 1 ELSE @]
    /\ UNCHANGED <<findings, code, pc, suppressed_count, calls, raisedBy,
                   history, entry, engine, ex, rl>>

\* one iteration of `for finding in findings` in the call of request r;
\* an exception ends the call with the loop position where it was raised
ConcLoopStep(r) ==
    /\ reqs[r].pc = "loop"
    /\ reqs[r].idx <= Len(reqs[r].findings)
    /\ LET i == reqs[r].idx
           q == ApplyOneOf(engine.rules, reqs[r].findings[i], reqs[r].code)
       IN  reqs' = [reqs EXCEPT
              ![r].findings[i] = q.finding,
              ![r].pc = IF q.outcome \in {"raise_gate", "raise_rule"}
                        THEN "raised" ELSE "loop",
              ![r].idx = IF q.outcome \in {"raise_gate", "raise_rule"}
                         THEN i ELSE i + 1,
              ![r].suppressed_count =
                   IF q.outcome = "suppressed" THEN @ + 1 ELSE @]
    /\ UNCHANGED <<pipelineVars, engine, ex, rl>>

\* the loop of request r is over: `return findings`
ConcReturn(r) ==
    /\ reqs[r].pc = "loop"
    /\ reqs[r].idx > Len(reqs[r].findings)
    /\ reqs' = [reqs EXCEPT ![r].pc = "returned"]
    /\ UNCHANGED <<pipelineVars, engine, ex, rl>>

ConcNext ==
    \/ \E r \in DOMAIN reqs : ConcCall(r)
    \/ \E r \in DOMAIN reqs : ConcLoopStep(r)
    \/ \E r \in DOMAIN reqs : ConcReturn(r)

ConcSpec == ConcInit /\ [][ConcNext]_vars

-----------------------------------------------------------------------------
(* The context helpers called on their own: _get_line, _get_prev_lines and  *)
(* _get_next_lines take any text, any integer line number and any count.    *)

MaxLineNum == 6
MaxCount == 3

\* code.split('\n') of the empty text and of texts of one to four lines
ExtractorTexts ==
    { << {} >>,
      << {"a"} >>,
      << {"a"}, {"b"} >>,
      << {"a"}, {"b"}, {"c"} >>,
      << {"a"}, {"b"}, {"c"}, {"d"} >> }

ExtractorInit ==
    /\ \E t \in ExtractorTexts, n \in (0 - MaxLineNum)..MaxLineNum,
          k \in 0..MaxCount :
          ex = [fn |-> "none", text |-> t, line_num |-> n, count |-> k,
                result |-> << >>]
    /\ engine = EngineAtStartup
    /\ reqs = << >>
    /\ rl = NoLimiter
    /\ findings = << >>
    /\ code = << >>
    /\ pc = "helpers"
    /\ idx = 0
    /\ suppressed_count = 0
    /\ calls = 0
    /\ raisedBy = "none"
    /\ history = << >>
    /\ entry = << >>

\* _get_line(code, line_num); the one line is kept as a list of one
CallGetLine ==
    /\ ex.fn = "none"
    /\ ex' = [ex EXCEPT !.fn = "_get_line",
                        !.result = << get_line(ex.text, ex.line_num) >>]
    /\ UNCHANGED <<pipelineVars, engine, reqs, rl>>

\* _get_prev_lines(code, line_num, count)
CallGetPrevLines ==
    /\ ex.fn = "none"
    /\ ex' = [ex EXCEPT !.fn = "_get_prev_lines",
                        !.result = get_prev_lines(ex.text, ex.line_num,
                                                  ex.count)]
    /\ UNCHANGED <<pipelineVars, engine, reqs, rl>>

\* _get_next_lines(code, line_num, count)
CallGetNextLines ==
    /\ ex.fn = "none"
    /\ ex' = [ex EXCEPT !.fn = "_get_next_lines",
                        !.result = get_next_lines(ex.text, ex.line_num,
                                                  ex.count)]
    /\ UNCHANGED <<pipelineVars, engine, reqs, rl>>

ExtractorNext ==
    \/ CallGetLine
    \/ CallGetPrevLines
    \/ CallGetNextLines

ExtractorSpec == ExtractorInit /\ [][ExtractorNext]_vars

-----------------------------------------------------------------------------
(* One rule asked about one finding on two texts: rule.matches(finding,     *)
(* code) is a function of its arguments, evaluated here with the rule as    *)
(* it is (a SuppressionRule, without the helpers) and with the helpers      *)
(* resolved to those of the engine.                                         *)

\* the largest count a rule passes to a window helper
MaxWindow == 10

\* number of lines of the texts: enough for a line outside the window of a
\* finding at either end
LongTextLen == 12

BlankText == [i \in 1..LongTextLen |-> {}]

\* blank texts with one idiom on one line: next to the start, in the
\* middle, and on the last two lines
LongTexts ==
    {BlankText} \cup
    { [BlankText EXCEPT ![i] = {tag}] :
        i \in {1, 6, LongTextLen - 1, LongTextLen},
        tag \in {"validate_path", "line_safe", "getrandom"} }

LocalityFindingPool ==
    { [cwe_id |-> "CWE-22", function |-> "open", snippet |-> Chars_open,
       line |-> 0, confidence |-> Float(95), missing |-> {"line"}],
      [cwe_id |-> "CWE-22", function |-> "open", snippet |-> Chars_open,
       line |-> 6, confidence |-> Float(95), missing |-> {}],
      [cwe_id |-> "CWE-415", function |-> "free", snippet |-> Chars_free,
       line |-> 1, confidence |-> Float(95), missing |-> {}],
      [cwe_id |-> "CWE-330", function |-> "rand", snippet |-> Chars_rand,
       line |-> LongTextLen, confidence |-> Float(95), missing |-> {}] }

\* line i of a text, or that it has no such line
LineAt(c, i) == IF i \in DOMAIN c THEN <<c[i]>> ELSE << >>

\* the two texts have the same lines from MaxWindow before line n to
\* MaxWindow after it
AgreeOnWindow(c1, c2, n) ==
    \A i \in (n - MaxWindow)..(n + MaxWindow) : LineAt(c1, i) = LineAt(c2, i)

LocalityInit ==
    /\ \E p \in LocalityFindingPool, c1 \in LongTexts, c2 \in LongTexts :
          /\ AgreeOnWindow(c1, c2, line_of(p))
          /\ ex = [fn |-> "none", rule |-> "None", finding |-> MkFinding(1, p),
                   text |-> c1, other |-> c2,
                   result |-> << >>, resolved |-> << >>]
    /\ engine = EngineAtStartup
    /\ reqs = << >>
    /\ rl = NoLimiter
    /\ findings = << >>
    /\ code = << >>
    /\ pc = "rules"
    /\ idx = 0
    /\ suppressed_count = 0
    /\ calls = 0
    /\ raisedBy = "none"
    /\ history = << >>
    /\ entry = << >>

\* rule.matches(finding, code) for one rule of the engine, on each text
CallRuleMatches ==
    /\ ex.fn = "none"
    /\ \E k \in DOMAIN engine.rules :
          LET rule == engine.rules[k]
          IN  ex' = [ex EXCEPT
                !.fn = "matches",
                !.rule = rule,
                !.result = << matches(rule, RuleClassAttrs, ex.finding,
                                      ex.text),
                              matches(rule, RuleClassAttrs, ex.finding,
                                      ex.other) >>,
                !.resolved = << matches(rule, EngineClassAttrs, ex.finding,
                                        ex.text),
                                matches(rule, EngineClassAttrs, ex.finding,
                                        ex.other) >>]
    /\ UNCHANGED <<pipelineVars, engine, reqs, rl>>

LocalityNext == CallRuleMatches

LocalitySpec == LocalityInit /\ [][LocalityNext]_vars

-----------------------------------------------------------------------------
(* The sliding-window rate limiter                                          *)
(* Times are whole clock ticks. A call reads the clock first and takes the  *)
(* lock afterwards, so the two are separate steps; what runs under the lock *)
(* is one step.                                                             *)

\* the limits the limiter is built with
max_requests == 1
window_seconds == 2

\* the callers and the clock's last tick
MaxThreads == 2
MaxTime == 3
\* the number of calls made in one behaviour
MaxLimiterCalls == 3

\* the client addresses, the keys of self.requests
Clients == {"10.0.0.1", "10.0.0.2"}
Threads == 1..MaxThreads

RECURSIVE MaxOfSeq(_)
MaxOfSeq(s) ==
    IF Len(s) = 1 THEN s[1] ELSE Max(s[1], MaxOfSeq(Tail(s)))

\* [t for t in self.requests[client_ip] if t > window_start]
PruneOld(recorded, current_time) ==
    LET window_start == current_time - window_seconds
        InWindow(req_time) == req_time > window_start
    IN  SelectSeq(recorded, InWindow)

\* reset_time of both methods
reset_time_of(recorded, current_time) ==
    IF recorded # << >> THEN MaxOfSeq(recorded) + window_seconds
    ELSE current_time + window_seconds

\* is_allowed with every call recorded, the denied ones too
is_allowed_recording_denied(requests, client_ip, current_time) ==
    LET kept == PruneOld(requests[client_ip], current_time)
        allowed == Len(kept) < max_requests
        recorded == Append(kept, current_time)
        current_requests == Len(recorded)
    IN  [requests |-> [requests EXCEPT ![client_ip] = recorded],
         allowed |-> allowed,
         info |-> [limit |-> max_requests,
                   remaining |-> Max(0, max_requests - current_requests),
                   reset |-> reset_time_of(recorded, current_time)]]

\* the body of is_allowed under the lock
is_allowed(requests, client_ip, current_time) ==
    LET kept == PruneOld(requests[client_ip], current_time)
        allowed == Len(kept) < max_requests
        recorded == IF allowed THEN Append(kept, current_time) ELSE kept
        current_requests == Len(recorded)
    IN  [requests |-> [requests EXCEPT ![client_ip] = recorded],
         allowed |-> allowed,
         info |-> [limit |-> max_requests,
                   remaining |-> Max(0, max_requests - current_requests),
                   reset |-> reset_time_of(recorded, current_time)]]

\* the body of get_info under the lock
get_info(requests, client_ip, current_time) ==
    LET kept == PruneOld(requests[client_ip], current_time)
        current_requests == Len(kept)
    IN  [requests |-> [requests EXCEPT ![client_ip] = kept],
         allowed |-> FALSE,
         info |-> [limit |-> max_requests,
                   remaining |-> Max(0, max_requests - current_requests),
                   reset |-> reset_time_of(kept, current_time)]]

\* a caller that is in no call
IdleThread == [pc |-> "idle", client_ip |-> "", current_time |-> 0]

NoLimiterCall ==
    [op |-> "none", client_ip |-> "", current_time |-> 0, allowed |-> FALSE,
     remaining |-> 0, reset |-> 0]

\* the limiter as get_rate_limiter() builds it, and no call made yet;
\* granted is the record of the requests it has allowed, by client
RateInit ==
    /\ rl = [built |-> TRUE,
             now |-> 0,
             requests |-> [c \in Clients |-> << >>],
             th |-> [t \in Threads |-> IdleThread],
             granted |-> [c \in Clients |-> << >>],
             started |-> 0,
             last |-> NoLimiterCall]
    /\ engine = EngineAtStartup
    /\ reqs = << >>
    /\ ex = NoHelperCall
    /\ findings = << >>
    /\ code = << >>
    /\ pc = "limiting"
    /\ idx = 0
    /\ suppressed_count = 0
    /\ calls = 0
    /\ raisedBy = "None"
    /\ history = << >>
    /\ entry = << >>

\* the clock advances
Tick ==
    /\ pc = "limiting"
    /\ rl.now < MaxTime
    /\ rl' = [rl EXCEPT !.now = rl.now + 1]
    /\ UNCHANGED <<pipelineVars, engine, reqs, ex>>

\* current_time = time.time(), the first statement of is_allowed
IsAllowedReadClock(t, c) ==
    /\ pc = "limiting"
    /\ rl.th[t].pc = "idle"
    /\ rl.started < MaxLimiterCalls
    /\ rl' = [rl EXCEPT !.th[t] = [pc |-> "is_allowed", client_ip |-> c,
                                   current_time |-> rl.now],
                        !.started = rl.started + 1]
    /\ UNCHANGED <<pipelineVars, engine, reqs, ex>>

\* with self.lock: the rest of is_allowed
IsAllowedLocked(t) ==
    /\ pc = "limiting"
    /\ rl.th[t].pc = "is_allowed"
    /\ LET c == rl.th[t].client_ip
           ct == rl.th[t].current_time
           r == is_allowed(rl.requests, c, ct)
       IN  rl' = [rl EXCEPT
                    !.requests = r.requests,
                    !.granted[c] = IF r.allowed THEN Append(@, ct) ELSE @,
                    !.th[t] = IdleThread,
                    !.last = [op |-> "is_allowed", client_ip |-> c,
                              current_time |-> ct, allowed |-> r.allowed,
                              remaining |-> r.info.remaining,
                              reset |-> r.info.reset]]
    /\ UNCHANGED <<pipelineVars, engine, reqs, ex>>

\* current_time = time.time(), the first statement of get_info
GetInfoReadClock(t, c) ==
    /\ pc = "limiting"
    /\ rl.th[t].pc = "idle"
    /\ rl.started < MaxLimiterCalls
    /\ rl' = [rl EXCEPT !.th[t] = [pc |-> "get_info", client_ip |-> c,
                                   current_time |-> rl.now],
                        !.started = rl.started + 1]
    /\ UNCHANGED <<pipelineVars, engine, reqs, ex>>

\* with self.lock: the rest of get_info
GetInfoLocked(t) ==
    /\ pc = "limiting"
    /\ rl.th[t].pc = "get_info"
    /\ LET c == rl.th[t].client_ip
           ct == rl.th[t].current_time
           r == get_info(rl.requests, c, ct)
       IN  rl' = [rl EXCEPT
                    !.requests = r.requests,
                    !.th[t] = IdleThread,
                    !.last = [op |-> "get_info", client_ip |-> c,
                              current_time |-> ct, allowed |-> FALSE,
                              remaining |-> r.info.remaining,
                              reset |-> r.info.reset]]
    /\ UNCHANGED <<pipelineVars, engine, reqs, ex>>

RateNext ==
    \/ Tick
    \/ \E t \in Threads, c \in Clients : IsAllowedReadClock(t, c)
    \/ \E t \in Threads : IsAllowedLocked(t)
    \/ \E t \in Threads, c \in Clients : GetInfoReadClock(t, c)
    \/ \E t \in Threads : GetInfoLocked(t)

RateSpec == RateInit /\ [][RateNext]_vars

-----------------------------------------------------------------------------
(* Properties                                                               *)

\* the never-suppress list as the specification states it
DenylistOfSpec ==
    {"strcpy", "strcat", "gets", "sprintf", "vsprintf", "system", "popen"}

\* a call of apply_suppression has ended, by return or by an exception
CallEnded == pc \in {"returned", "raised"}

\* the findings the ended or running call has gone through
Processed ==
    IF pc = "raised" THEN 1..idx
    ELSE IF pc \in {"loop", "returned"} THEN 1..(idx - 1)
    ELSE {}

\* C1: a finding whose context.function is in the never-suppress list and
\* that is ACTIVE when apply_suppression is entered is ACTIVE throughout
\* and after the call, whatever its CWE, its confidence and the source text.
C1_DenylistPrecedence ==
    pc \in {"loop", "returned", "raised"} =>
        \A j \in DOMAIN findings :
            (entry[j].function \in DenylistOfSpec /\ entry[j].status = ACTIVE)
                => findings[j].status = ACTIVE

\* a denylisted CWE-330 finding that passes the confidence gate has been
\* processed against a text in which cryptographic_source_used matches
C1_Witness ==
    /\ pc = "returned"
    /\ \E j \in DOMAIN findings :
          /\ findings[j].function \in DenylistOfSpec
          /\ findings[j].confidence = Float(95)
          /\ CryptographicSourceUsedRule(RuleClassAttrs, findings[j], code)
                .matches
          /\ findings[j].status = ACTIVE

\* C2: no finding is SUPPRESSED by a rule whose proposed confidence (the one
\* the engine stores) is below the minimum configured for the finding's CWE.
C2_ThresholdGate ==
    \A j \in DOMAIN findings :
        findings[j].suppression_confidence # NoConfidence
            => findings[j].suppression_confidence
                  >= MinThreshold(findings[j].cwe_id)

\* C3: every call of apply_suppression that has ended returned a list with
\* the findings of its input, as many and in the same order.
C3_Conservation ==
    \A k \in DOMAIN history :
        /\ history[k].kind = "returned"
        /\ Len(history[k].findings) = Len(history[k].entry)
        /\ \A j \in DOMAIN history[k].entry :
              history[k].findings[j].id = history[k].entry[j].id

\* C4: apply_suppression never raises to its caller.
C4_NeverRaises == pc # "raised"

\* the rules that match a finding when the context extractor of the engine
\* is what self._get_line, self._get_prev_lines and self._get_next_lines
\* resolve to
WouldMatch(f, c) ==
    {k \in DOMAIN rules : matches(rules[k], EngineClassAttrs, f, c).matches}

EarliestOf(S) == CHOOSE k \in S : \A m \in S : k <= m

GatePasses(f) ==
    /\ function_of(f) \notin DenylistOfSpec
    /\ confidence_of(f).kind = "float"
    /\ confidence_of(f).v >= MinThreshold(cwe_id_of(f))

\* C5: a processed finding that passed the gate and that two or more rules
\* would match has the status, reason and stored confidence given by the
\* earliest of these rules alone.
C5_FirstMatch ==
    \A j \in DOMAIN findings :
        (/\ j \in Processed
         /\ GatePasses(entry[j])
         /\ Cardinality(WouldMatch(entry[j], code)) >= 2)
        => LET first == EarliestOf(WouldMatch(entry[j], code))
               out == matches(rules[first], EngineClassAttrs, entry[j], code)
           IN  /\ findings[j].status = SUPPRESSED
               /\ findings[j].suppression_reason = out.reason
               /\ findings[j].suppression_confidence = out.boost

\* some rule's matches returns a match whose proposed confidence reaches the
\* minimum of the finding's CWE
RuleProposesAboveMin(f, c) ==
    \E k \in DOMAIN rules :
        LET out == matches(rules[k], RuleClassAttrs, f, c)
        IN  out.matches /\ out.boost >= MinThreshold(f.cwe_id)

\* C6: after a call that returned, a finding that entered ACTIVE is
\* SUPPRESSED exactly when it is not denylisted and some rule matches it with
\* a proposed confidence at or above the minimum of its CWE.
C6_Decision ==
    pc = "returned" =>
        \A j \in DOMAIN findings :
            entry[j].status = ACTIVE =>
                (findings[j].status = SUPPRESSED
                    <=> (/\ entry[j].function \notin DenylistOfSpec
                         /\ RuleProposesAboveMin(entry[j], code)))

\* C7: no step changes a SUPPRESSED finding back to ACTIVE.
C7_Monotonic ==
    [][\A j \in DOMAIN findings :
          findings[j].status = SUPPRESSED => findings'[j].status = SUPPRESSED
      ]_vars

\* a second call has gone through a finding that was SUPPRESSED on its entry
C7_Witness ==
    /\ calls = 2
    /\ pc = "returned"
    /\ \E j \in DOMAIN findings :
          entry[j].status = SUPPRESSED /\ findings[j].status = SUPPRESSED

\* C8: suppression_reason is set if and only if status is SUPPRESSED.
C8_ReasonIffSuppressed ==
    \A j \in DOMAIN findings :
        findings[j].suppression_reason # NoReason
            <=> findings[j].status = SUPPRESSED

\* status, reason and confidence values of a list of findings
Decisions(fs) ==
    [j \in DOMAIN fs |->
        <<fs[j].status, fs[j].suppression_reason, fs[j].confidence,
          fs[j].suppression_confidence>>]

\* C9: a call of apply_suppression on the findings a previous call returned
\* returns them with the same status, reason and confidence values.
C9_Idempotent ==
    \A k \in DOMAIN history :
        (k + 1 \in DOMAIN history /\ history[k].kind = "returned")
            => /\ history[k + 1].kind = "returned"
               /\ Decisions(history[k + 1].findings)
                     = Decisions(history[k].findings)

\* two calls have returned and the first one suppressed a finding by a rule
C9_Witness ==
    /\ Len(history) >= 2
    /\ history[1].kind = "returned"
    /\ history[2].kind = "returned"
    /\ \E j \in DOMAIN findings :
          /\ history[1].entry[j].status = ACTIVE
          /\ history[1].findings[j].status = SUPPRESSED
          /\ history[1].findings[j].suppression_confidence # NoConfidence

\* C10: an exception raised by a rule's matches does not leave the engine:
\* no call of apply_suppression ends with an exception of a rule.
C10_RuleErrorCaught == raisedBy # "raise_rule"


\* the findings that entered the call ACTIVE and are SUPPRESSED now
Transitioned ==
    {j \in DOMAIN findings :
        entry[j].status = ACTIVE /\ findings[j].status = SUPPRESSED}

\* C11: when apply_suppression returns, the count it accumulated (the only
\* count it has: suppressed_count, written to the log) equals the number of
\* findings that went from ACTIVE to SUPPRESSED during the call; a finding
\* already SUPPRESSED on entry adds nothing.
C11_CountIsTransitions ==
    pc = "returned" => suppressed_count = Cardinality(Transitioned)

\* the name under which the rule table of the specification lists each rule
\* class (the name in the class docstring)
RuleTableName(rule) ==
    CASE rule = "PrintfLiteralFormatRule" -> "printf_literal_format"
      [] rule = "SnprintfLiteralFormatRule" -> "snprintf_literal_format"
      [] rule = "FormatStringSafeForwardRule" -> "format_string_safe_forward"
      [] rule = "ExeclNoShellRule" -> "execl_no_shell"
      [] rule = "ExecArgAllowlistRule" -> "exec_arg_allowlist"
      [] rule = "ExecConstArgvRule" -> "exec_const_argv"
      [] rule = "StrncpyBoundsPlusNulRule" -> "strncpy_bounds_plus_nul"
      [] rule = "StrncatSpaceGuardRule" -> "strncat_space_guard"
      [] rule = "ScanfWidthSpecifierRule" -> "scanf_width_specifier"
      [] rule = "BoundsCheckedIndexRule" -> "bounds_checked_index"
      [] rule = "AllocAddOverflowGuardRule" -> "alloc_add_overflow_guard"
      [] rule = "MulOverflowGuardRule" -> "mul_overflow_guard"
      [] rule = "SignedUnderflowGuardRule" -> "signed_underflow_guard"
      [] rule = "FreeThenNullRule" -> "free_then_null"
      [] rule = "NullGuardedUseRule" -> "null_guarded_use"
      [] rule = "NoPostFreeUseRule" -> "no_post_free_use"
      [] rule = "LeakHandledOnErrorRule" -> "leak_handled_on_error"
      [] rule = "RelpathAllowlistRule" -> "relpath_allowlist"
      [] rule = "OpenExclusiveRule" -> "open_exclusive"
      [] rule = "MkstempOkRule" -> "mkstemp_ok"
      [] rule = "SizeofFixedBufferRule" -> "sizeof_fixed_buffer"
      [] rule = "SizeofDerefPointerRule" -> "sizeof_deref_pointer"
      [] rule = "CryptographicSourceUsedRule" -> "cryptographic_source_used"
      [] rule = "ContextSafeRule" -> "context_safe"
      [] OTHER -> "None"

\* a reason string split at its first ": " (str.partition), for the reasons
\* the engine and the AI step can write; a string without ": " is one part
ReasonParts(reason) ==
    CASE reason = "ai_suppression: r" -> <<"ai_suppression", "r">>
      [] reason = "ai_adjustment: r" -> <<"ai_adjustment", "r">>
      [] OTHER -> <<reason>>

\* C12: whenever the engine suppresses a finding, the suppression_reason it
\* writes is the table name of the rule that matched, then ": ", then the
\* reason text of that rule.
C12_ReasonNamesRule ==
    pc \in {"loop", "returned", "raised"} =>
        \A j \in Processed :
            LET r == ApplyOne(entry[j], code)
                parts == ReasonParts(findings[j].suppression_reason)
            IN  r.outcome = "suppressed" =>
                    /\ Len(parts) = 2
                    /\ parts[1] = RuleTableName(r.rule)

\* no rule of the engine answers "matches" for the finding
NoRuleMatches(f, c) ==
    \A k \in DOMAIN rules : ~matches(rules[k], RuleClassAttrs, f, c).matches

\* C13: a finding that passed the gate and that no rule matches is left as
\* it entered the call: same status (ACTIVE if it was ACTIVE), same
\* suppression_reason, same confidence and suppression_confidence.
C13_NoMatchUntouched ==
    pc \in {"loop", "returned", "raised"} =>
        \A j \in Processed :
            (GatePasses(entry[j]) /\ NoRuleMatches(entry[j], code))
                => findings[j] = entry[j]

\* a CWE-22 finding with confidence 0.95, no validation call in the five
\* lines before it and no other idiom has gone through the rule loop and is
\* ACTIVE with its confidence unchanged
C13_Witness ==
    /\ pc = "raised"
    /\ idx \in DOMAIN findings
    /\ entry[idx].cwe_id = "CWE-22"
    /\ entry[idx].missing = {}
    /\ entry[idx].status = ACTIVE
    /\ GatePasses(entry[idx])
    /\ NoRuleMatches(entry[idx], code)
    /\ ~AnyLineHas(get_prev_lines(code, entry[idx].line, 5),
                   {"is_safe_relpath", "validate_path", "not_dotdot"})
    /\ findings[idx].status = ACTIVE
    /\ findings[idx].suppression_reason = NoReason
    /\ findings[idx].confidence = Float(95)

\* C14: a finding that lacks a field (context, context.function, line,
\* cwe_id or confidence) is processed without an exception leaving
\* apply_suppression, and unless a rule matches it, it stays ACTIVE.
C14_MissingFieldNoException ==
    pc \in {"loop", "returned", "raised"} =>
        \A j \in Processed :
            (entry[j].missing # {} /\ entry[j].status = ACTIVE) =>
                /\ ~(pc = "raised" /\ j = idx)
                /\ NoRuleMatches(entry[j], code)
                      => findings[j].status = ACTIVE

\* the findings the loop has finished with when it is stopped: before the
\* current one, which is the one that raised if the call was aborted
Decided == IF pc \in {"loop", "raised"} THEN 1..(idx - 1) ELSE {}

\* C15: wherever the loop stops (between two findings, or aborted by an
\* exception), the findings before the stopping point carry the decision one
\* iteration of the loop gives each of them, and every finding from the
\* stopping point on is as it entered the call, so ACTIVE if it entered
\* ACTIVE.
C15_PartialResult ==
    pc \in {"loop", "raised"} =>
        \A j \in DOMAIN findings :
            IF j \in Decided
            THEN findings[j] = ApplyOne(entry[j], code).finding
            ELSE /\ findings[j] = entry[j]
                 /\ entry[j].status = ACTIVE => findings[j].status = ACTIVE

\* the call was aborted at the second finding or later, after the engine
\* had suppressed the first one; the finding it stopped at is still ACTIVE
C15_Witness ==
    /\ pc = "raised"
    /\ idx >= 2
    /\ idx \in DOMAIN findings
    /\ entry[1].status = ACTIVE
    /\ findings[1].status = SUPPRESSED
    /\ findings[idx].status = ACTIVE
    /\ findings[idx] = entry[idx]

\* apply_suppression run to its end (return or exception) on one list, with
\* no other call going on
RECURSIVE RunAlone(_, _, _)
RunAlone(fs, c, i) ==
    IF i > Len(fs) THEN [findings |-> fs, kind |-> "returned"]
    ELSE LET q == ApplyOne(fs[i], c)
             gs == [fs EXCEPT ![i] = q.finding]
         IN  IF q.outcome \in {"raise_gate", "raise_rule"}
             THEN [findings |-> gs, kind |-> "raised"]
             ELSE RunAlone(gs, c, i + 1)

\* C16: with several requests in the one shared engine at once, each on its
\* own list, under every interleaving each request is, at every point of its
\* call, where it would be alone: the findings it has gone through have the
\* status, suppression_reason, confidence and suppression_confidence they
\* end with when the request runs alone, and a call that has ended has ended
\* the same way with the same list; the engine's rule list and configuration
\* are what they were at startup.
C16_Isolation ==
    /\ engine = EngineAtStartup
    /\ \A r \in DOMAIN reqs :
          reqs[r].pc # "ready" =>
              LET alone == RunAlone(reqs[r].entry, reqs[r].code, 1)
              IN  /\ \A j \in 1..(reqs[r].idx - 1) :
                        reqs[r].findings[j] = alone.findings[j]
                  /\ reqs[r].pc \in {"returned", "raised"} =>
                        /\ reqs[r].pc = alone.kind
                        /\ reqs[r].findings = alone.findings

\* two calls are in the engine at the same time, each past its first
\* iteration and not yet over, and the first has suppressed a finding
C16_Witness ==
    /\ Len(reqs) >= 2
    /\ reqs[1].pc = "loop"
    /\ reqs[1].idx = 2
    /\ reqs[1].entry[1].status = ACTIVE
    /\ reqs[1].findings[1].status = SUPPRESSED
    /\ reqs[2].pc = "loop"
    /\ reqs[2].idx = 2
    /\ Len(reqs[2].findings) >= 2

\* C17: with the default configuration, a CWE-415 finding on free at line 10
\* of a text whose line 11 is "p = NULL;" is matched by free_then_null and
\* is SUPPRESSED once the engine has gone through it.
C17_FreeThenNullScenario ==
    CallEnded =>
        \A j \in Processed :
            ( /\ entry[j].missing = {}
              /\ entry[j].status = ACTIVE
              /\ entry[j].cwe_id = "CWE-415"
              /\ entry[j].function = "free"
              /\ entry[j].line = 10
              /\ Len(code) >= 11
              /\ "assign_null" \in code[11] )
            => /\ findings[j].status = SUPPRESSED
               /\ ReasonParts(findings[j].suppression_reason)[1]
                     = "free_then_null"

\* the reasons that contain "printf_literal_format": the bare rule reason,
\* and the rule name followed by ": " and a text
ContainsPrintfLiteralFormat(reason) ==
    "printf_literal_format" \in
        {ReasonParts(reason)[i] : i \in DOMAIN ReasonParts(reason)}

\* C18: with the default configuration, a CWE-134 finding on printf whose
\* line is printf("%s", buf); is SUPPRESSED once the engine has gone through
\* it, with a suppression_reason that contains "printf_literal_format".
C18_PrintfLiteralScenario ==
    CallEnded =>
        \A j \in Processed :
            ( /\ entry[j].missing = {}
              /\ entry[j].status = ACTIVE
              /\ entry[j].cwe_id = "CWE-134"
              /\ entry[j].function = "printf"
              /\ "literal_format" \in get_line(code, entry[j].line) )
            => /\ findings[j].status = SUPPRESSED
               /\ ContainsPrintfLiteralFormat(findings[j].suppression_reason)

\* the lines of a text whose 1-based numbers lie in lo..hi, in source order
ExistingLines(text, lo, hi) == SubSeq(text, Max(lo, 1), Min(hi, Len(text)))

\* C19: for every text, every integer n (n <= 0 and n past the last line
\* included) and every k >= 0, getPrevLines(code, n, k) returns at most k
\* lines: the existing lines numbered n-k to n-1, in source order.
C19_PrevLines ==
    ex.fn = "_get_prev_lines" =>
        /\ Len(ex.result) <= ex.count
        /\ ex.result = ExistingLines(ex.text, ex.line_num - ex.count,
                                     ex.line_num - 1)

\* C20: for every text, every integer n (negative n and n past the last
\* line included) and every k >= 0, getNextLines(code, n, k) returns at most
\* k lines: the existing lines numbered n+1 to n+k, in source order.
C20_NextLines ==
    ex.fn = "_get_next_lines" =>
        /\ Len(ex.result) <= ex.count
        /\ ex.result = ExistingLines(ex.text, ex.line_num + 1,
                                     ex.line_num + ex.count)

\* C21: getLine(code, n) returns the n-th line, counting from 1, whenever
\* 1 <= n <= number of lines, and the empty string for every other n (0,
\* negative, past the end).
C21_GetLine ==
    ex.fn = "_get_line" =>
        ex.result =
            << IF 1 <= ex.line_num /\ ex.line_num <= Len(ex.text)
               THEN ex.text[ex.line_num]
               ELSE EmptyLine >>

\* _get_line was called with line number 0 on a text of several non-empty
\* lines and returned the empty string
C21_Witness ==
    /\ ex.fn = "_get_line"
    /\ ex.line_num = 0
    /\ Len(ex.text) >= 2
    /\ ex.result = << EmptyLine >>

\* the window sizes the rules pass to _get_prev_lines and _get_next_lines
WindowSizes == {3, 5, 10}

\* the rules that look at the finding's line or at a window around it: all
\* of them but cryptographic_source_used, which searches the whole text
LineDependentRules ==
    {rules[k] : k \in DOMAIN rules} \ {"CryptographicSourceUsedRule"}

\* C22: for a finding whose line number is outside 1..number of lines (0,
\* the default of a missing line, included), the context helpers give the
\* empty string and empty lists, no rule that depends on the line or on a
\* window matches, and unless another rule matches the finding stays ACTIVE.
C22_OutOfRangeLine ==
    pc \in {"loop", "returned", "raised"} =>
        \A j \in Processed :
            LET n == line_of(entry[j])
            IN  ((n < 1 \/ n > Len(code)) /\ entry[j].status = ACTIVE) =>
                    /\ get_line(code, n) = EmptyLine
                    /\ \A w \in WindowSizes :
                          /\ get_prev_lines(code, n, w) = << >>
                          /\ get_next_lines(code, n, w) = << >>
                    /\ \A rule \in LineDependentRules :
                          ~matches(rule, RuleClassAttrs, entry[j], code)
                              .matches
                    /\ NoRuleMatches(entry[j], code)
                          => findings[j].status = ACTIVE

\* the rules that would match (see WouldMatch) with a proposed confidence at
\* or above the minimum of the finding's CWE
WouldMatchAtOrAbove(f, c) ==
    {k \in WouldMatch(f, c) :
        matches(rules[k], EngineClassAttrs, f, c).boost
            >= MinThreshold(cwe_id_of(f))}

\* C23: when an earlier rule matches a finding with a proposed confidence
\* below the minimum of its CWE and a later rule matches with one at or above
\* it, the earlier match does not stop the evaluation: the finding ends
\* SUPPRESSED with the reason and the confidence of the first rule that
\* reaches the minimum.
C23_BelowThresholdMatchSkipped ==
    pc \in {"loop", "returned", "raised"} =>
        \A j \in Processed :
            LET W == WouldMatch(entry[j], code)
                A == WouldMatchAtOrAbove(entry[j], code)
            IN  ( /\ entry[j].status = ACTIVE
                  /\ function_of(entry[j]) \notin DenylistOfSpec
                  /\ A # {}
                  /\ \E k \in W \ A : k < EarliestOf(A) )
                => LET out == matches(rules[EarliestOf(A)], EngineClassAttrs,
                                      entry[j], code)
                   IN  /\ findings[j].status = SUPPRESSED
                       /\ findings[j].suppression_reason = out.reason
                       /\ findings[j].suppression_confidence = out.boost

\* C24: a finding that is SUPPRESSED when apply_suppression is entered (by
\* the AI step, or by an earlier call) is terminal: no rule is evaluated for
\* it, so no rule raises on it, and its status, suppression_reason and
\* stored confidence are what they were on entry.
C24_SuppressedIsTerminal ==
    pc \in {"loop", "returned", "raised"} =>
        \A j \in Processed :
            entry[j].status = SUPPRESSED =>
                /\ ~(pc = "raised" /\ j = idx /\ raisedBy = "raise_rule")
                /\ findings[j].status = SUPPRESSED
                /\ findings[j].suppression_reason
                      = entry[j].suppression_reason
                /\ findings[j].suppression_confidence
                      = entry[j].suppression_confidence
                /\ findings[j].confidence = entry[j].confidence

TableCWEs(rule) ==
    CASE rule \in {"PrintfLiteralFormatRule", "SnprintfLiteralFormatRule",
                   "FormatStringSafeForwardRule"} -> {"CWE-134"}
      [] rule \in {"ExeclNoShellRule", "ExecArgAllowlistRule",
                   "ExecConstArgvRule"} -> {"CWE-78"}
      [] rule \in {"StrncpyBoundsPlusNulRule", "StrncatSpaceGuardRule"}
            -> {"CWE-120", "CWE-121", "CWE-122"}
      [] rule = "ScanfWidthSpecifierRule" -> {"CWE-120"}
      [] rule = "BoundsCheckedIndexRule" -> {"CWE-120", "CWE-787"}
      [] rule \in {"AllocAddOverflowGuardRule", "MulOverflowGuardRule",
                   "SignedUnderflowGuardRule"} -> {"CWE-190", "CWE-191"}
      [] rule = "FreeThenNullRule" -> {"CWE-401", "CWE-415", "CWE-416"}
      [] rule = "NullGuardedUseRule" -> {"CWE-476", "CWE-415", "CWE-416"}
      [] rule = "NoPostFreeUseRule" -> {"CWE-415", "CWE-416"}
      [] rule = "LeakHandledOnErrorRule" -> {"CWE-401"}
      [] rule = "RelpathAllowlistRule" -> {"CWE-22"}
      [] rule = "OpenExclusiveRule" -> {"CWE-22", "CWE-367"}
      [] rule = "MkstempOkRule" -> {"CWE-377"}
      [] rule \in {"SizeofFixedBufferRule", "SizeofDerefPointerRule"}
            -> {"CWE-467"}
      [] rule = "CryptographicSourceUsedRule" -> {"CWE-330"}
      [] OTHER -> {}

\* C26: a rule other than context_safe answers "matches" only for a finding
\* whose cwe_id is in the rule's CWE set of the rule table, whatever the
\* text holds; this with the rule as it is and with its helpers resolved.
C26_RuleCweSets ==
    (ex.fn = "matches" /\ ex.rule # "ContextSafeRule") =>
        \A out \in {ex.result[1], ex.result[2],
                    ex.resolved[1], ex.resolved[2]} :
            out.matches => cwe_id_of(ex.finding) \in TableCWEs(ex.rule)

\* cryptographic_source_used has answered "matches" for a CWE-330 finding
C26_Witness ==
    /\ ex.fn = "matches"
    /\ ex.rule = "CryptographicSourceUsedRule"
    /\ ex.result[1].matches
    /\ cwe_id_of(ex.finding) = "CWE-330"

\* a finding without the three fields the engine writes
FrameOf(f) ==
    [id |-> f.id, cwe_id |-> f.cwe_id, function |-> f.function,
     snippet |-> f.snippet, line |-> f.line, confidence |-> f.confidence,
     missing |-> f.missing]

\* C27: during and after a call of apply_suppression every finding has the
\* confidence, id, cwe_id, line, snippet and context it entered with and no
\* key it lacked, status, suppression_reason and suppression_confidence
\* apart; a finding that is denylisted or whose confidence is below the
\* minimum of its CWE has these three unchanged as well.
C27_OnlyThreeFieldsWritten ==
    pc \in {"loop", "returned", "raised"} =>
        \A j \in DOMAIN findings :
            /\ FrameOf(findings[j]) = FrameOf(entry[j])
            /\ ( \/ function_of(entry[j]) \in DenylistOfSpec
                 \/ /\ confidence_of(entry[j]).kind = "float"
                    /\ confidence_of(entry[j]).v
                          < MinThreshold(cwe_id_of(entry[j])) )
               => findings[j] = entry[j]

\* a call has returned after it suppressed a finding that entered ACTIVE and
\* passed over a denylisted finding
C27_Witness ==
    /\ pc = "returned"
    /\ \E j \in DOMAIN findings :
          /\ entry[j].status = ACTIVE
          /\ findings[j].status = SUPPRESSED
          /\ findings[j].confidence = Float(95)
    /\ \E j \in DOMAIN findings :
          /\ function_of(entry[j]) \in DenylistOfSpec
          /\ findings[j].status = ACTIVE

\* C28: the AI step changes neither the status nor the confidence nor the
\* suppression_reason of a finding whose context.function is in the
\* never-suppress list, whatever the response asks for and whatever the
\* snippet holds; and no step of the pipeline, AI step or engine, takes such
\* a finding from ACTIVE.
C28_AIRespectsDenylist ==
    [][\A j \in DOMAIN findings :
          function_of(findings[j]) \in DenylistOfSpec =>
              /\ pc = "scanned" =>
                    /\ findings'[j].status = findings[j].status
                    /\ findings'[j].confidence = findings[j].confidence
                    /\ findings'[j].suppression_reason
                          = findings[j].suppression_reason
              /\ findings[j].status = ACTIVE => findings'[j].status = ACTIVE
      ]_vars

\* the requests the limiter has allowed client c whose timestamps lie in
\* (t - window_seconds, t]
GrantedInWindow(c, t) ==
    Cardinality({i \in DOMAIN rl.granted[c] :
                    /\ rl.granted[c][i] > t - window_seconds
                    /\ rl.granted[c][i] <= t})

\* thread t leaves the locked part of its call in this step
LockedStepOf(t) ==
    /\ rl.th[t].pc \in {"is_allowed", "get_info"}
    /\ rl'.th[t].pc = "idle"

\* C29: for every client and every time t, under any interleaving of the
\* calls, the limiter has allowed at most max_requests requests of that
\* client with timestamps in (t - window_seconds, t], and a call made for
\* one client changes neither the recorded timestamps nor the allowed
\* requests of another client.
C29_WindowLimit ==
    [][/\ \A c \in Clients, t \in 0..MaxTime :
              GrantedInWindow(c, t)' <= max_requests
       /\ \A t \in Threads :
              LockedStepOf(t) =>
                  \A d \in Clients \ {rl.th[t].client_ip} :
                      /\ rl'.requests[d] = rl.requests[d]
                      /\ rl'.granted[d] = rl.granted[d]
      ]_vars

RECURSIVE MinOfSeq(_)
MinOfSeq(s) ==
    IF Len(s) = 1 THEN s[1] ELSE Min(s[1], MinOfSeq(Tail(s)))

\* the timestamps of a list that are not older than the window that ends
\* at time t, in their order
NotOlderThanWindow(recorded, t) ==
    LET Recent(x) == x > t - window_seconds
    IN  SelectSeq(recorded, Recent)

\* C30: a denied is_allowed and every get_info leave the client's recorded
\* timestamps as they were but for the ones older than the window, allow
\* nothing, and report a 'remaining' not lower than the list allowed before
\* the call; and an is_allowed call whose client's oldest recorded timestamp
\* has left the window is allowed.
C30_DeniedConsumesNothing ==
    [][\A t \in Threads :
          LockedStepOf(t) =>
              LET c == rl.th[t].client_ip
                  ct == rl.th[t].current_time
                  before == rl.requests[c]
              IN  /\ (rl.th[t].pc = "get_info" \/ ~rl'.last.allowed) =>
                        /\ rl'.requests[c] = NotOlderThanWindow(before, ct)
                        /\ rl'.granted = rl.granted
                        /\ rl'.last.remaining
                              >= Max(0, max_requests - Len(before))
                  /\ ( /\ rl.th[t].pc = "is_allowed"
                       /\ before # << >>
                       /\ MinOfSeq(before) <= ct - window_seconds )
                        => rl'.last.allowed
      ]_vars

\* a client was allowed, allowed again once its request had left the
\* window, and is then denied with its timestamp still recorded
C30_Witness ==
    /\ rl.built
    /\ rl.last.op = "is_allowed"
    /\ ~rl.last.allowed
    /\ Len(rl.granted[rl.last.client_ip]) >= 2
    /\ rl.requests[rl.last.client_ip] # << >>

====
